---- MODULE Spec2Model ----
(***************************************************************************)
(* A model of scientific_panel_generator.py: the PanelGenerator object,    *)
(* its layout descriptor parser, its row/panel geometry calculator and the *)
(* run of generate() that drives them.                                     *)
(*                                                                         *)
(* Strings are sequences of one-character strings.  Floats are modelled as *)
(* exact rationals <<numerator, denominator>> in lowest terms with a       *)
(* positive denominator.  A raised Python exception is the state           *)
(* pc = "raised" with the exception's name in `raised` and the function    *)
(* it left in `raised_in`.                                                 *)
(***************************************************************************)
EXTENDS Integers, Sequences, FiniteSets

VARIABLES
    self,        \* the PanelGenerator object's attributes
    args,        \* the arguments of generate()
    metrics,     \* generate's local `metrics`
    structure,   \* generate's local `structure`
    result,      \* generate's local `result`
    drawn,       \* what the panel loop has put on page_out, in order
    output,      \* the kind of output file written so far
    pc,          \* position of the run
    raised,      \* name of the exception that ended the run, or "none"
    raised_in    \* the function the exception came from, or "none"

vars == <<self, args, metrics, structure, result, drawn, output, pc, raised, raised_in>>

(***************************************************************************)
(* Bounds of the model.                                                    *)
(***************************************************************************)
MaxFiles == 3
MaxLen == 4

(***************************************************************************)
(* Small helpers.                                                          *)
(***************************************************************************)
Min(a, b) == IF a <= b THEN a ELSE b

Abs(a) == IF a < 0 THEN 0 - a ELSE a

RECURSIVE GCD(_, _)
GCD(a, b) == IF b = 0 THEN a ELSE GCD(b, a % b)

RECURSIVE SeqSum(_)
SeqSum(s) == IF s = <<>> THEN 0 ELSE s[1] + SeqSum(Tail(s))

RECURSIVE Flatten(_)
Flatten(rows) == IF rows = <<>> THEN <<>> ELSE rows[1] \o Flatten(Tail(rows))

\* Python's None, where the other values are tuples
None == <<>>

(***************************************************************************)
(* Python string operations, on sequences of characters.                   *)
(***************************************************************************)
Digits == {"0", "1", "2", "3", "4", "5", "6", "7", "8", "9"}

DigitVal(c) ==
    CASE c = "0" -> 0 [] c = "1" -> 1 [] c = "2" -> 2 [] c = "3" -> 3
      [] c = "4" -> 4 [] c = "5" -> 5 [] c = "6" -> 6 [] c = "7" -> 7
      [] c = "8" -> 8 [] c = "9" -> 9

\* str.lower() on one character of the alphabet
LowerChar(c) == CASE c = "X" -> "x" [] c = "A" -> "a" [] OTHER -> c

\* str.lower()
Lower(s) == [i \in 1..Len(s) |-> LowerChar(s[i])]

\* `c in s`
Contains(s, c) == \E i \in 1..Len(s) : s[i] = c

\* str.isdigit(): non-empty and every character a digit
IsDigit(s) == Len(s) > 0 /\ \A i \in 1..Len(s) : s[i] \in Digits

\* the value of a string of decimal digits
RECURSIVE DigitsValue(_)
DigitsValue(s) ==
    IF s = <<>> THEN 0
    ELSE 10 * DigitsValue(SubSeq(s, 1, Len(s) - 1)) + DigitVal(s[Len(s)])

\* int(s): an optional sign followed by at least one digit, ValueError otherwise
PyInt(s) ==
    IF IsDigit(s) THEN [ok |-> TRUE, val |-> DigitsValue(s)]
    ELSE IF Len(s) > 1 /\ s[1] = "-" /\ IsDigit(Tail(s))
         THEN [ok |-> TRUE, val |-> 0 - DigitsValue(Tail(s))]
         ELSE [ok |-> FALSE, val |-> 0]

\* str.split(sep) for a one-character separator: empty tokens are kept
RECURSIVE Split(_, _)
Split(s, sep) ==
    IF ~Contains(s, sep) THEN <<s>>
    ELSE LET i == CHOOSE k \in 1..Len(s) :
                      s[k] = sep /\ \A j \in 1..(k - 1) : s[j] # sep
         IN <<SubSeq(s, 1, i - 1)>> \o Split(SubSeq(s, i + 1, Len(s)), sep)

\* list(range(a, b))
Range(a, b) == [j \in 1..(b - a) |-> a + j - 1]

(***************************************************************************)
(* parse_layout_structure                                                  *)
(***************************************************************************)
\* the inner loop `for _ in range(count): if idx < num_files: row.append(idx); idx += 1`
\* run to its end: the row takes the next indices, `count` of them or as many
\* as are left below num_files
FillRow(count, idx, num_files) ==
    IF count <= 0 \/ idx >= num_files THEN <<>>
    ELSE Range(idx, Min(idx + count, num_files))

\* `if row: structure.append(row)`
AppendIfRow(row) == IF row # <<>> THEN <<row>> ELSE <<>>

\* the grid form's loop `for r in range(rows)`.  An empty row leaves idx as
\* it was, so every later row is empty too and none of them is appended.
RECURSIVE GridRows(_, _, _, _)
GridRows(cols, rows, idx, num_files) ==
    IF rows <= 0 THEN <<>>
    ELSE LET row == FillRow(cols, idx, num_files)
         IN IF row = <<>> THEN <<>>
            ELSE AppendIfRow(row)
                 \o GridRows(cols, rows - 1, idx + Len(row), num_files)

\* case '2x2': a failed int() or a split into other than two parts is a
\* ValueError, caught before the structure is touched
ParseGrid(layout_str, num_files) ==
    LET parts == Split(Lower(layout_str), "x")
    IN IF Len(parts) # 2 THEN <<>>
       ELSE LET cols == PyInt(parts[1])
                rows == PyInt(parts[2])
            IN IF ~cols.ok \/ ~rows.ok THEN <<>>
               ELSE GridRows(cols.val, rows.val, 0, num_files)

\* a token counted by its length even when it is a number
TokenCount_LengthOnly(x) == Len(x)

\* `int(x) if x.isdigit() else len(x)`
TokenCount(x) == IF IsDigit(x) THEN DigitsValue(x) ELSE Len(x)

\* the row-counts form's loop `for count in row_counts`
RECURSIVE CountRows(_, _, _)
CountRows(row_counts, idx, num_files) ==
    IF row_counts = <<>> THEN <<>>
    ELSE LET row == FillRow(row_counts[1], idx, num_files)
         IN AppendIfRow(row) \o CountRows(Tail(row_counts), idx + Len(row), num_files)

\* case '2,1' or '2-1'
ParseRowCounts(layout_str, num_files) ==
    LET sep == IF Contains(layout_str, ",") THEN "," ELSE "-"
        tokens == Split(layout_str, sep)
        row_counts == [i \in 1..Len(tokens) |-> TokenCount(tokens[i])]
    IN CountRows(row_counts, 0, num_files)

\* case 'ABC' or '3': one row, appended even when it is empty
ParseSimple(layout_str, num_files) ==
    IF IsDigit(layout_str)
    THEN <<Range(0, Min(DigitsValue(layout_str), num_files))>>
    ELSE <<Range(0, Min(Len(layout_str), num_files))>>

\* the three forms, by the first pattern that applies
ParseForms(layout_str, num_files) ==
    IF Contains(Lower(layout_str), "x") THEN ParseGrid(layout_str, num_files)
    ELSE IF Contains(layout_str, ",") \/ Contains(layout_str, "-")
         THEN ParseRowCounts(layout_str, num_files)
         ELSE ParseSimple(layout_str, num_files)

\* a recovery row that starts one index too late
AppendRemaining_SkipsOne(struct, num_files) ==
    LET total_in_struct == SeqSum([i \in 1..Len(struct) |-> Len(struct[i])])
    IN IF total_in_struct < num_files
       THEN Append(struct, Range(total_in_struct + 1, num_files))
       ELSE struct

\* a recovery row that numbers the remaining panels from 0 again
AppendRemaining_FromZero(struct, num_files) ==
    LET total_in_struct == SeqSum([i \in 1..Len(struct) |-> Len(struct[i])])
    IN IF total_in_struct < num_files
       THEN Append(struct, Range(0, num_files - total_in_struct))
       ELSE struct

\* the recovery rule: the indices not placed go to one more row
AppendRemaining(struct, num_files) ==
    LET total_in_struct == SeqSum([i \in 1..Len(struct) |-> Len(struct[i])])
    IN IF total_in_struct < num_files
       THEN Append(struct, Range(total_in_struct, num_files))
       ELSE struct

parse_layout_structure(layout_str, num_files) ==
    AppendRemaining(ParseForms(layout_str, num_files), num_files)

(***************************************************************************)
(* Exact rational arithmetic for the program's floats.                     *)
(***************************************************************************)
Rat(n, d) ==
    LET g == GCD(Abs(n), Abs(d))
        s == IF d < 0 THEN 0 - 1 ELSE 1
    IN <<s * (n \div g), s * (d \div g)>>

RInt(k) == <<k, 1>>

RAdd(a, b) == Rat(a[1] * b[2] + b[1] * a[2], a[2] * b[2])

RSub(a, b) == Rat(a[1] * b[2] - b[1] * a[2], a[2] * b[2])

RMul(a, b) ==
    LET g1 == GCD(Abs(a[1]), b[2])
        g2 == GCD(Abs(b[1]), a[2])
    IN Rat((a[1] \div g1) * (b[1] \div g2), (a[2] \div g2) * (b[2] \div g1))

\* a / b for b # 0
RDiv(a, b) == RMul(a, IF b[1] < 0 THEN <<0 - b[2], 0 - b[1]>> ELSE <<b[2], b[1]>>)

RLess(a, b) == a[1] * b[2] < b[1] * a[2]

RLeq(a, b) == a[1] * b[2] <= b[1] * a[2]

\* max(a, b)
RMax(a, b) == IF RLess(a, b) THEN b ELSE a

RECURSIVE RSum(_)
RSum(s) == IF s = <<>> THEN RInt(0) ELSE RAdd(s[1], RSum(Tail(s)))

(***************************************************************************)
(* Module constants and PanelGenerator.__init__                            *)
(* The object's attribute dpi is not assigned by __init__: has_dpi tells   *)
(* whether it exists, and reading it while it does not is AttributeError.  *)
(***************************************************************************)
\* mm = 2.83465 points
mm == <<56693, 20000>>

\* the internal padding added to the label strip, in points
LabelPad == 4

\* the side of the square substituted for an unreadable document
FallbackSize == 100

\* `if self.page_height_mm`: None and 0 are both false
Truthy(v) == v # None /\ v[1] # 0

__init__(page_width, page_height, margin, spacing, label_size) ==
    [page_width_mm  |-> page_width,
     page_height_mm |-> page_height,
     margin         |-> RMul(margin, mm),
     spacing        |-> RMul(spacing, mm),
     label_size     |-> label_size,
     usable_width   |-> RSub(RMul(page_width, mm),
                             RMul(RInt(2), RMul(margin, mm))),
     has_dpi        |-> FALSE,
     dpi            |-> 0]

(***************************************************************************)
(* The documents on disk and get_pdf_metrics                               *)
(***************************************************************************)
Paths == {"missing.pdf", "wide.pdf", "tall.pdf"}

\* whether fitz.open(path)[0] succeeds
Readable(path) == path # "missing.pdf"

\* page.rect of a readable document's first page, as <<width, height>>
PageRect(path) ==
    IF path = "wide.pdf" THEN <<RInt(200), RInt(100)>>
    ELSE <<RInt(100), RInt(200)>>

PdfMetric(path) ==
    IF Readable(path)
    THEN LET rect == PageRect(path)
         IN [width  |-> rect[1],
             height |-> rect[2],
             ratio  |-> IF RLess(RInt(0), rect[2]) THEN RDiv(rect[1], rect[2])
                        ELSE RInt(1),
             path   |-> path]
    ELSE [width  |-> RInt(FallbackSize),
          height |-> RInt(FallbackSize),
          ratio  |-> RInt(1),
          path   |-> path]

get_pdf_metrics(file_paths) == [i \in 1..Len(file_paths) |-> PdfMetric(file_paths[i])]

(***************************************************************************)
(* calculate_layout                                                        *)
(***************************************************************************)
\* avail_w / num_panels, for num_panels > 0
PanelWidth(obj, num_panels) ==
    RDiv(RSub(obj.usable_width, RMul(RInt(num_panels - 1), obj.spacing)),
         RInt(num_panels))

\* the loop `required_height = max(required_height, panel_w / m['ratio'])`
RECURSIVE RequiredHeight(_, _, _, _)
RequiredHeight(row_indices, mets, panel_w, required_height) ==
    IF row_indices = <<>> THEN required_height
    ELSE RequiredHeight(Tail(row_indices), mets, panel_w,
                        RMax(required_height,
                             RDiv(panel_w, mets[row_indices[1] + 1].ratio)))

\* a row height that takes the first panel's need instead of the greatest
RowIdealHeight_FirstPanel(obj, row_indices, mets) ==
    RAdd(RAdd(RMax(RInt(0), RDiv(PanelWidth(obj, Len(row_indices)),
                                 mets[row_indices[1] + 1].ratio)),
              RInt(obj.label_size)),
         RInt(LabelPad))

\* one entry of row_ideal_heights
RowIdealHeight(obj, row_indices, mets) ==
    RAdd(RAdd(RequiredHeight(row_indices, mets,
                             PanelWidth(obj, Len(row_indices)), RInt(0)),
              RInt(obj.label_size)),
         RInt(LabelPad))

RowIdealHeights(obj, struct, mets) ==
    [r \in 1..Len(struct) |-> RowIdealHeight(obj, struct[r], mets)]

\* sum(row_ideal_heights) + (len(structure) - 1) * spacing + 2 * margin
TotalIdealHeight(obj, struct, row_ideal_heights) ==
    RAdd(RAdd(RSum(row_ideal_heights),
              RMul(RInt(Len(struct) - 1), obj.spacing)),
         RMul(RInt(2), obj.margin))

FinalPageHeight(obj, struct, row_ideal_heights) ==
    IF Truthy(obj.page_height_mm) THEN RMul(obj.page_height_mm, mm)
    ELSE TotalIdealHeight(obj, struct, row_ideal_heights)

\* final_page_height - 2 * margin - (len(structure) - 1) * spacing
FinalUsableHeight(obj, struct, final_page_height) ==
    RSub(RSub(final_page_height, RMul(RInt(2), obj.margin)),
         RMul(RInt(Len(struct) - 1), obj.spacing))

\* a scale factor taken per row count instead of over the sum of the rows
ScaleFactor_PerRow(final_usable_height, row_ideal_heights) ==
    IF RLess(RInt(0), RSum(row_ideal_heights))
    THEN RDiv(final_usable_height,
              RMul(RInt(Len(row_ideal_heights)), row_ideal_heights[1]))
    ELSE RInt(1)

ScaleFactor(final_usable_height, row_ideal_heights) ==
    IF RLess(RInt(0), RSum(row_ideal_heights))
    THEN RDiv(final_usable_height, RSum(row_ideal_heights))
    ELSE RInt(1)

ActualRowHeights(obj, struct, row_ideal_heights) ==
    IF Truthy(obj.page_height_mm)
    THEN LET scale_factor ==
                 ScaleFactor(FinalUsableHeight(obj, struct,
                                 FinalPageHeight(obj, struct, row_ideal_heights)),
                             row_ideal_heights)
         IN [r \in 1..Len(struct) |-> RMul(row_ideal_heights[r], scale_factor)]
    ELSE row_ideal_heights

\* a row whose cursor advances by the panel width alone
RECURSIVE PlaceRow_NoSpacing(_, _, _, _, _, _, _)
PlaceRow_NoSpacing(obj, row_indices, mets, panel_w, h, current_x, current_y) ==
    IF row_indices = <<>> THEN <<>>
    ELSE <<[index |-> row_indices[1],
            rect  |-> [x0 |-> current_x,
                       y0 |-> current_y,
                       x1 |-> RAdd(current_x, panel_w),
                       y1 |-> RAdd(current_y, h)],
            path  |-> mets[row_indices[1] + 1].path]>>
         \o PlaceRow_NoSpacing(obj, Tail(row_indices), mets, panel_w, h,
                               RAdd(current_x, panel_w), current_y)

\* the inner loop `for i in row_indices`, with its running current_x
RECURSIVE PlaceRow(_, _, _, _, _, _, _)
PlaceRow(obj, row_indices, mets, panel_w, h, current_x, current_y) ==
    IF row_indices = <<>> THEN <<>>
    ELSE <<[index |-> row_indices[1],
            rect  |-> [x0 |-> current_x,
                       y0 |-> current_y,
                       x1 |-> RAdd(current_x, panel_w),
                       y1 |-> RAdd(current_y, h)],
            path  |-> mets[row_indices[1] + 1].path]>>
         \o PlaceRow(obj, Tail(row_indices), mets, panel_w, h,
                     RAdd(current_x, RAdd(panel_w, obj.spacing)), current_y)

\* the outer loop `for row_idx, row_indices in enumerate(structure)`
RECURSIVE PlaceRows(_, _, _, _, _)
PlaceRows(obj, struct, mets, actual_row_heights, current_y) ==
    IF struct = <<>> THEN <<>>
    ELSE PlaceRow(obj, struct[1], mets, PanelWidth(obj, Len(struct[1])),
                  actual_row_heights[1], obj.margin, current_y)
         \o PlaceRows(obj, Tail(struct), mets, Tail(actual_row_heights),
                      RAdd(current_y, RAdd(actual_row_heights[1], obj.spacing)))

\* a row without panels divides by num_panels = 0, a zero ratio divides by it
DividesByZero(struct, mets) ==
    \E r \in 1..Len(struct) :
        \/ Len(struct[r]) = 0
        \/ \E j \in 1..Len(struct[r]) : mets[struct[r][j] + 1].ratio[1] = 0

calculate_layout(obj, struct, mets) ==
    IF DividesByZero(struct, mets)
    THEN [raised |-> "ZeroDivisionError", page_size |-> <<>>, panels |-> <<>>]
    ELSE LET row_ideal_heights == RowIdealHeights(obj, struct, mets)
         IN [raised    |-> "none",
             page_size |-> <<RMul(obj.page_width_mm, mm),
                             FinalPageHeight(obj, struct, row_ideal_heights)>>,
             panels    |-> PlaceRows(obj, struct, mets,
                                     ActualRowHeights(obj, struct, row_ideal_heights),
                                     obj.margin)]

(***************************************************************************)
(* generate, one action per step of the run                                *)
(***************************************************************************)
Letters == <<"A", "B", "C", "D", "E", "F", "G", "H", "I", "J", "K", "L", "M",
             "N", "O", "P", "Q", "R", "S", "T", "U", "V", "W", "X", "Y", "Z">>

\* chr(65 + i) for 0 <= i < 26
Chr65(i) == Letters[i + 1]

\* `labels[i] if labels and i < len(labels) else chr(65 + i)`
LabelText(labels, i) ==
    IF labels # None /\ Len(labels) > 0 /\ i < Len(labels) THEN labels[i + 1]
    ELSE Chr65(i)

\* fitz.Rect(rect.x0, rect.y0 + self.label_size + 4, rect.x1, rect.y1)
FigRect(obj, rect) ==
    [x0 |-> rect.x0,
     y0 |-> RAdd(rect.y0, RInt(obj.label_size + LabelPad)),
     x1 |-> rect.x1,
     y1 |-> rect.y1]

\* os.path.splitext(output_file)[1].lower()
LowerExt(output_file) == IF output_file = ".PNG" THEN ".png" ELSE output_file

RasterExts == {".png", ".jpg", ".jpeg", ".tiff", ".tif"}

Raise(exc, where) ==
    /\ pc' = "raised"
    /\ raised' = exc
    /\ raised_in' = where

\* the values of --dpi tried: its default
DpiValues == {300}

\* __main__: gen.dpi = args.dpi, between construction and generate
InjectDpi ==
    /\ pc = "get_pdf_metrics"
    /\ ~self.has_dpi
    /\ \E d \in DpiValues : self' = [self EXCEPT !.has_dpi = TRUE, !.dpi = d]
    /\ UNCHANGED <<args, metrics, structure, result, drawn, output, pc, raised, raised_in>>

GetPdfMetrics ==
    /\ pc = "get_pdf_metrics"
    /\ metrics' = get_pdf_metrics(args.input_files)
    /\ pc' = "parse_layout_structure"
    /\ UNCHANGED <<self, args, structure, result, drawn, output, raised, raised_in>>

ParseLayoutStructure ==
    /\ pc = "parse_layout_structure"
    /\ structure' = parse_layout_structure(args.layout_str, Len(args.input_files))
    /\ pc' = "calculate_layout"
    /\ UNCHANGED <<self, args, metrics, result, drawn, output, raised, raised_in>>

CalculateLayout ==
    /\ pc = "calculate_layout"
    /\ LET r == calculate_layout(self, structure, metrics)
       IN IF r.raised # "none"
          THEN /\ Raise(r.raised, "calculate_layout")
               /\ UNCHANGED result
          ELSE /\ result' = [page_size |-> r.page_size, panels |-> r.panels]
               /\ pc' = "panels"
               /\ UNCHANGED <<raised, raised_in>>
    /\ UNCHANGED <<self, args, metrics, structure, drawn, output>>

\* one iteration of `for i, config in enumerate(result['panels'])`
RenderPanel ==
    /\ pc = "panels"
    /\ Len(drawn) < Len(result.panels)
    /\ LET i == Len(drawn)
           config == result.panels[i + 1]
       IN IF ~Readable(config.path)
          THEN /\ Raise("FileNotFoundError", "generate")
               /\ UNCHANGED drawn
          ELSE /\ drawn' = Append(drawn, [index    |-> config.index,
                                          path     |-> config.path,
                                          fig_rect |-> FigRect(self, config.rect),
                                          label    |-> LabelText(args.labels, i),
                                          at       |-> <<config.rect.x0,
                                                         RAdd(config.rect.y0,
                                                              RInt(self.label_size))>>])
               /\ UNCHANGED <<pc, raised, raised_in>>
    /\ UNCHANGED <<self, args, metrics, structure, result, output>>

\* the output format, by the extension
WriteOutput ==
    /\ pc = "panels"
    /\ Len(drawn) = Len(result.panels)
    /\ LET ext == LowerExt(args.output_file)
       IN IF ext \in RasterExts
          THEN IF ~self.has_dpi
               THEN /\ Raise("AttributeError", "generate")
                    /\ UNCHANGED output
               ELSE /\ output' = [kind |-> "raster", dpi |-> self.dpi]
                    /\ pc' = "print"
                    /\ UNCHANGED <<raised, raised_in>>
          ELSE /\ output' = [kind |-> IF ext = ".svg" THEN "svg" ELSE "pdf",
                             dpi  |-> 0]
               /\ pc' = "print"
               /\ UNCHANGED <<raised, raised_in>>
    /\ UNCHANGED <<self, args, metrics, structure, result, drawn>>

\* doc_out.close() and the closing print, which formats self.dpi
PrintSaved ==
    /\ pc = "print"
    /\ IF ~self.has_dpi
       THEN Raise("AttributeError", "generate")
       ELSE /\ pc' = "done"
            /\ UNCHANGED <<raised, raised_in>>
    /\ UNCHANGED <<self, args, metrics, structure, result, drawn, output>>

(***************************************************************************)
(* The inputs of the runs                                                  *)
(***************************************************************************)
\* the length in mm that is k points
Points(k) == Rat(20000 * k, 56693)

PageWidths == {Points(60), Points(14)}

PageHeights == {None, Points(100), Points(12)}

Margins == {Points(5)}

Spacings == {Points(3)}

LabelSizes == {12}

Generators ==
    {__init__(pw, ph, m, s, ls) :
        pw \in PageWidths, ph \in PageHeights, m \in Margins,
        s \in Spacings, ls \in LabelSizes}

\* "2,1", "2x2", "2", "0", "", "Ax2", "1,1,1"
Descriptors ==
    {<<"2", ",", "1">>, <<"2", "x", "2">>, <<"2">>, <<"0">>, <<>>,
     <<"A", "x", "2">>, <<"1", ",", "1", ",", "1">>}

FileLists == UNION {[1..n -> Paths] : n \in 0..MaxFiles}

LabelLists == {None, <<"fig1", "fig2">>}

OutputFiles == {".pdf", ".PNG", ".svg"}

NoResult == [page_size |-> <<>>, panels |-> <<>>]

NoOutput == [kind |-> "none", dpi |-> 0]

Init ==
    /\ self \in Generators
    /\ args \in [layout_str : Descriptors, input_files : FileLists,
                 output_file : OutputFiles, labels : LabelLists]
    /\ metrics = <<>>
    /\ structure = <<>>
    /\ result = NoResult
    /\ drawn = <<>>
    /\ output = NoOutput
    /\ pc = "get_pdf_metrics"
    /\ raised = "none"
    /\ raised_in = "none"

Next ==
    \/ InjectDpi
    \/ GetPdfMetrics
    \/ ParseLayoutStructure
    \/ CalculateLayout
    \/ RenderPanel
    \/ WriteOutput
    \/ PrintSaved

Spec == Init /\ [][Next]_vars

(***************************************************************************)
(* parse_layout_structure alone, over every descriptor of the alphabet     *)
(***************************************************************************)
Alphabet == {"0", "1", "2", "A", "x", "X", ",", "-"}

LayoutStrings == UNION {[1..n -> Alphabet] : n \in 0..MaxLen}

InitParse ==
    /\ self = __init__(RInt(180), None, RInt(5), RInt(3), 12)
    /\ \E n \in 0..(MaxFiles + 2) :
          args \in [layout_str : LayoutStrings,
                    input_files : {[i \in 1..n |-> "wide.pdf"]},
                    output_file : {".pdf"}, labels : {None}]
    /\ metrics = <<>>
    /\ structure = <<>>
    /\ result = NoResult
    /\ drawn = <<>>
    /\ output = NoOutput
    /\ pc = "parse_layout_structure"
    /\ raised = "none"
    /\ raised_in = "none"

NextParse == ParseLayoutStructure

SpecParse == InitParse /\ [][NextParse]_vars

(***************************************************************************)
(* Vocabulary of the properties                                            *)
(***************************************************************************)
NumFiles == Len(args.input_files)

\* parse_layout_structure has returned
Parsed == pc \notin {"get_pdf_metrics", "parse_layout_structure"}

\* calculate_layout has returned a result
LaidOut == pc \in {"panels", "print", "done"} \/ (pc = "raised" /\ raised_in = "generate")

FixedHeight == Truthy(self.page_height_mm)

\* the position in result.panels of the j-th panel of row r
PanelOf(r, j) == result.panels[SeqSum([q \in 1..(r - 1) |-> Len(structure[q])]) + j]

RectWidth(rect) == RSub(rect.x1, rect.x0)

RectHeight(rect) == RSub(rect.y1, rect.y0)

\* the final height of row r, read off its first rectangle
RowHeight(r) == RectHeight(PanelOf(r, 1).rect)

\* the greatest element of a non-empty finite set of rationals
MaxOver(S) == CHOOSE m \in S : \A x \in S : RLeq(x, m)

\* w / r_i for the panels of row r
IdealPanelHeights(r) ==
    {RDiv(PanelWidth(self, Len(structure[r])), metrics[structure[r][j] + 1].ratio) :
        j \in 1..Len(structure[r])}

(***************************************************************************)
(* C1: whatever the descriptor and the number N of inputs, the structure   *)
(* parse_layout_structure returns holds every index of 0..N-1 exactly once *)
(* over all its rows, and no other index.                                  *)
(***************************************************************************)
C1_EveryIndexExactlyOnce ==
    Parsed =>
        LET flat == Flatten(structure)
        IN /\ \A k \in 0..(NumFiles - 1) :
                  Cardinality({i \in 1..Len(flat) : flat[i] = k}) = 1
           /\ \A i \in 1..Len(flat) : flat[i] \in 0..(NumFiles - 1)

\* the malformed grid "Ax2" with three inputs: all three land in the recovery row
C1_Witness ==
    /\ Parsed
    /\ args.layout_str = <<"A", "x", "2">>
    /\ NumFiles = 3
    /\ structure = <<<<0, 1, 2>>>>

(***************************************************************************)
(* C6: in the row-counts form a token counts as its number when it is all  *)
(* digits and as its length otherwise; the rows take the indices           *)
(* consecutively in token order until N is used up, a token that gets no   *)
(* index gives no row, so no row is empty, and writing a non-digit token   *)
(* as the decimal string of its length changes nothing.                    *)
(***************************************************************************)
RowCountsForm(str) ==
    /\ ~Contains(Lower(str), "x")
    /\ Contains(str, ",") \/ Contains(str, "-")

RECURSIVE Decimal(_)
Decimal(k) ==
    LET d == CHOOSE c \in Digits : DigitVal(c) = k % 10
    IN IF k < 10 THEN <<d>> ELSE Decimal(k \div 10) \o <<d>>

RECURSIVE Join(_, _)
Join(tokens, sep) ==
    IF Len(tokens) = 1 THEN tokens[1]
    ELSE tokens[1] \o <<sep>> \o Join(Tail(tokens), sep)

\* the descriptor with every non-digit token written as its length
Digitised(str) ==
    LET sep == IF Contains(str, ",") THEN "," ELSE "-"
        tokens == Split(str, sep)
    IN Join([i \in 1..Len(tokens) |->
                IF IsDigit(tokens[i]) THEN tokens[i] ELSE Decimal(Len(tokens[i]))],
            sep)

\* the rows the claim describes: token k takes the indices from the sum of
\* the counts before it, up to N; the tokens that take none give no row
ExpectedRows(str, n) ==
    LET sep == IF Contains(str, ",") THEN "," ELSE "-"
        tokens == Split(str, sep)
        count(k) == IF IsDigit(tokens[k]) THEN DigitsValue(tokens[k]) ELSE Len(tokens[k])
        first(k) == Min(n, SeqSum([j \in 1..(k - 1) |-> count(j)]))
        last(k) == Min(n, first(k) + count(k))
        kept == {k \in 1..Len(tokens) : first(k) < last(k)}
        nth(i) == CHOOSE k \in kept : Cardinality({j \in kept : j < k}) = i - 1
        rows == [i \in 1..Cardinality(kept) |-> Range(first(nth(i)), last(nth(i)))]
        placed == Min(n, SeqSum([j \in 1..Len(tokens) |-> count(j)]))
    IN IF placed < n THEN Append(rows, Range(placed, n)) ELSE rows

C6_RowCountsForm ==
    (Parsed /\ RowCountsForm(args.layout_str)) =>
        /\ structure = ExpectedRows(args.layout_str, NumFiles)
        /\ structure = parse_layout_structure(Digitised(args.layout_str), NumFiles)
        /\ \A r \in 1..Len(structure) : Len(structure[r]) > 0

\* "AA-A" with three inputs gives [[0,1],[2]], as "2-1" does
C6_Witness ==
    /\ Parsed
    /\ args.layout_str = <<"A", "A", "-", "A">>
    /\ NumFiles = 3
    /\ structure = <<<<0, 1>>, <<2>>>>
    /\ Digitised(args.layout_str) = <<"2", "-", "1">>

(***************************************************************************)
(* C9: read row by row and left to right, the parsed structure lists       *)
(* 0, 1, ..., N-1 in ascending order, so the k-th placement of             *)
(* calculate_layout has index k and generate draws the k-th label          *)
(* (labels[k], or the k-th letter from "A" when the labels are absent or   *)
(* used up) on the panel of the k-th input file.                           *)
(***************************************************************************)
C9_PlacementOrderIsInputOrder ==
    /\ Parsed => Flatten(structure) = Range(0, NumFiles)
    /\ LaidOut =>
           /\ Len(result.panels) = NumFiles
           /\ \A k \in 1..Len(result.panels) :
                  /\ result.panels[k].index = k - 1
                  /\ result.panels[k].path = args.input_files[k]
    /\ \A k \in 1..Len(drawn) :
           /\ drawn[k].index = k - 1
           /\ drawn[k].path = args.input_files[k]
           /\ drawn[k].label = IF args.labels # None /\ k <= Len(args.labels)
                               THEN args.labels[k]
                               ELSE Letters[k]

\* three panels over two rows drawn with two labels given: the third is "C"
C9_Witness ==
    /\ pc = "done"
    /\ Len(structure) = 2
    /\ Len(drawn) = 3
    /\ args.labels # None
    /\ drawn[2].label = "fig2"
    /\ drawn[3].label = "C"
    /\ drawn[3].index = 2

(***************************************************************************)
(* C4: with a fixed page height, the final row heights plus                *)
(* (rowCount - 1) x spacing plus 2 x margin make up the configured page    *)
(* height, which is the page height of the result, and every row is        *)
(* scaled by one and the same factor.                                      *)
(***************************************************************************)
RowHeightsTotal ==
    RAdd(RAdd(RSum([r \in 1..Len(structure) |-> RowHeight(r)]),
              RMul(RInt(Len(structure) - 1), self.spacing)),
         RMul(RInt(2), self.margin))

FillsFixedHeight ==
    /\ RowHeightsTotal = RMul(self.page_height_mm, mm)
    /\ result.page_size[2] = RMul(self.page_height_mm, mm)

\* one factor for all rows: final heights are proportional to ideal heights
UniformScale ==
    LET ideal == RowIdealHeights(self, structure, metrics)
    IN \A r, q \in 1..Len(structure) :
           RMul(RowHeight(r), ideal[q]) = RMul(RowHeight(q), ideal[r])

\* the claim as stated, for every structure
C4_Original == (LaidOut /\ FixedHeight) => (FillsFixedHeight /\ UniformScale)

\* the claim for the structures that have a row
C4_FixedHeightIsFilled ==
    (LaidOut /\ FixedHeight /\ Len(structure) >= 1) => (FillsFixedHeight /\ UniformScale)

\* two rows of different ideal heights scaled into a page of 100 points
C4_Witness ==
    /\ LaidOut
    /\ self.page_height_mm = Points(100)
    /\ Len(structure) = 2
    /\ RowIdealHeights(self, structure, metrics)[1]
           # RowIdealHeights(self, structure, metrics)[2]
    /\ RowHeight(1) # RowIdealHeights(self, structure, metrics)[1]

(***************************************************************************)
(* C8: the ideal height of a row of panels with ratios r1..rk and shared   *)
(* width w is max_i(w / r_i) + label size + 4; without a fixed page height *)
(* it is the height of the row's rectangles, so each panel has at least    *)
(* w / r_i below its label strip.                                          *)
(***************************************************************************)
Strip == RInt(self.label_size + LabelPad)

\* without a fixed page height the rectangles of row r have the ideal height
\* and leave every panel its w / r_i below the label strip
AutoHeightFits(r) ==
    \A j \in 1..Len(structure[r]) :
        /\ RectHeight(PanelOf(r, j).rect) = RowIdealHeights(self, structure, metrics)[r]
        /\ RLeq(RDiv(PanelWidth(self, Len(structure[r])),
                     metrics[structure[r][j] + 1].ratio),
                RectHeight(FigRect(self, PanelOf(r, j).rect)))

\* the claim as stated, for every row
C8_Original ==
    LaidOut =>
        \A r \in 1..Len(structure) :
            /\ RowIdealHeights(self, structure, metrics)[r]
                   = RAdd(MaxOver(IdealPanelHeights(r)), Strip)
            /\ ~FixedHeight => AutoHeightFits(r)

\* the claim with the maximum taken from 0, as the code's loop starts it
C8_IdealRowHeight ==
    LaidOut =>
        \A r \in 1..Len(structure) :
            /\ RowIdealHeights(self, structure, metrics)[r]
                   = RAdd(RMax(RInt(0), MaxOver(IdealPanelHeights(r))), Strip)
            /\ ~FixedHeight => AutoHeightFits(r)

\* a row of a tall and a wide panel on the wide page: the tall one decides
C8_Witness ==
    /\ LaidOut
    /\ ~FixedHeight
    /\ self.page_width_mm = Points(60)
    /\ Len(structure[1]) = 2
    /\ metrics[1].ratio = <<2, 1>>
    /\ metrics[2].ratio = <<1, 2>>
    /\ RowHeight(1) = RAdd(RDiv(PanelWidth(self, 2), <<1, 2>>), Strip)

(***************************************************************************)
(* C10: every rectangle of calculate_layout has positive width and height, *)
(* lies inside the margin box of the page, and no two overlap: neighbours  *)
(* in a row are one spacing apart, consecutive rows one spacing apart.     *)
(***************************************************************************)
RectanglesWellPlaced ==
    /\ \A k \in 1..Len(result.panels) :
           LET rect == result.panels[k].rect
           IN /\ RLess(RInt(0), RectWidth(rect))
              /\ RLess(RInt(0), RectHeight(rect))
              /\ RLeq(self.margin, rect.x0)
              /\ RLeq(self.margin, rect.y0)
              /\ RLeq(rect.x1, RSub(result.page_size[1], self.margin))
              /\ RLeq(rect.y1, RSub(result.page_size[2], self.margin))
    /\ \A r \in 1..Len(structure) :
           /\ \A j \in 1..(Len(structure[r]) - 1) :
                  /\ PanelOf(r, j + 1).rect.x0
                         = RAdd(PanelOf(r, j).rect.x1, self.spacing)
                  /\ PanelOf(r, j + 1).rect.y0 = PanelOf(r, j).rect.y0
                  /\ PanelOf(r, j + 1).rect.y1 = PanelOf(r, j).rect.y1
           /\ r < Len(structure) =>
                  PanelOf(r + 1, 1).rect.y0 = RAdd(PanelOf(r, 1).rect.y1, self.spacing)

\* the preconditions of the claim as stated
PositiveConfiguration ==
    /\ RLess(RInt(0), self.page_width_mm)
    /\ RLeq(RInt(0), self.margin)
    /\ RLeq(RInt(0), self.spacing)

\* every row has width left for its panels, and the fixed page height, when
\* there is one, has height left for the rows
RoomForPanels ==
    /\ self.label_size >= 0
    /\ \A r \in 1..Len(structure) :
           RLess(RInt(0), RSub(self.usable_width,
                               RMul(RInt(Len(structure[r]) - 1), self.spacing)))
    /\ FixedHeight =>
           RLess(RInt(0), FinalUsableHeight(self, structure, RMul(self.page_height_mm, mm)))

\* the claim as stated
C10_Original == (LaidOut /\ PositiveConfiguration) => RectanglesWellPlaced

\* the claim for the configurations that leave room for the panels
C10_RectanglesWellPlaced ==
    (LaidOut /\ PositiveConfiguration /\ RoomForPanels) => RectanglesWellPlaced

\* two rows, the first of two panels, scaled into the page of 100 points
C10_Witness ==
    /\ LaidOut
    /\ PositiveConfiguration
    /\ RoomForPanels
    /\ FixedHeight
    /\ Len(structure) = 2
    /\ Len(structure[1]) = 2
    /\ Len(result.panels) = 3

(***************************************************************************)
(* C2: no descriptor makes the run abort: with N >= 1 readable inputs,     *)
(* parse_layout_structure followed by calculate_layout completes without   *)
(* raising and yields a page result, whatever the descriptor is.           *)
(***************************************************************************)
AllReadable == \A k \in 1..NumFiles : Readable(args.input_files[k])

C2_DescriptorNeverAborts ==
    (NumFiles >= 1 /\ AllReadable) =>
        ~(pc = "raised" /\ raised_in \in {"parse_layout_structure", "calculate_layout"})

(***************************************************************************)
(* C3: an input that cannot be read gets the metric 100 x 100 with ratio 1 *)
(* from get_pdf_metrics, which does not raise, and the run of generate     *)
(* then goes on through layout, panel rendering and the output write       *)
(* instead of stopping with an error.                                      *)
(***************************************************************************)
C3_UnreadableInputIsRecovered ==
    \A k \in 1..NumFiles :
        ~Readable(args.input_files[k]) =>
            /\ pc # "get_pdf_metrics" =>
                   /\ metrics[k].width = RInt(FallbackSize)
                   /\ metrics[k].height = RInt(FallbackSize)
                   /\ metrics[k].ratio = RInt(1)
            /\ ~(pc = "raised" /\ raised = "FileNotFoundError")

(***************************************************************************)
(* C5: without a fixed page height, calculate_layout on a structure of no  *)
(* rows, or of rows without panels, returns without raising an empty       *)
(* result: no panels, and a page height of 2 x margin.                     *)
(***************************************************************************)
NoPanelStructure == \A r \in 1..Len(structure) : Len(structure[r]) = 0

C5_EmptyStructureGivesMarginsOnly ==
    (pc \notin {"get_pdf_metrics", "parse_layout_structure", "calculate_layout"}
        /\ ~FixedHeight /\ NoPanelStructure) =>
        /\ LaidOut
        /\ result.panels = <<>>
        /\ result.page_size[2] = RMul(RInt(2), self.margin)

(***************************************************************************)
(* C7: dpi is used for raster outputs only: for an output that is not      *)
(* png, jpg, jpeg, tiff or tif, generate reads no dpi, so a generator that *)
(* the constructor alone built completes generate (stated here for the     *)
(* runs on at least one input, all of them readable).                      *)
(***************************************************************************)
C7_DpiOnlyForRaster ==
    (LowerExt(args.output_file) \notin RasterExts /\ NumFiles >= 1 /\ AllReadable) =>
        ~(pc = "raised" /\ raised = "AttributeError")

====
